---- MODULE Spec2Model ----
(***************************************************************************)
(* A model of lambda_debug_toolkit.py: the structured event logger, the    *)
(* sampling gate, the timing decorator, the correlation-ID middleware and  *)
(* the handler wrapper that composes them.                                 *)
(*                                                                         *)
(* Python values are tagged records of one shape, so that values of        *)
(* different Python types can be compared.  A Python dict is a function    *)
(* from its keys to such values; stored as a value it is PyDict(items).    *)
(***************************************************************************)
EXTENDS Integers, Sequences, FiniteSets, TLC

VARIABLES
    debug_enabled,  \* LambdaDebugger.debug_enabled
    sample_rate,    \* LambdaDebugger.sample_rate, in percent
    now,            \* the wall clock time.time() reads, in units of 0.005 ms
    sink,           \* the lines print() wrote to standard output, oldest first
    heap,           \* the dict objects handlers and callers hand to the library
    minted,         \* the values uuid.uuid4() returned so far, oldest first
    pc,             \* wrapper: position of each invocation
    event,          \* wrapper: the request object (the handler may mutate it)
    inbound,        \* wrapper: the request as it was when the wrapper was entered
    plan,           \* wrapper: what the wrapped handler of this invocation does
    corr_id,        \* wrapper: local corr_id
    start_time,     \* wrapper: local start_time
    result,         \* wrapper: local result
    error,          \* wrapper: the exception e being handled
    calls,          \* wrapper: how many times the wrapped handler was invoked
    outcome,        \* wrapper: what the invocation handed to its caller
    tpc,            \* timeit wrapper: position of the call
    tcall,          \* timeit wrapper: the wrapped callable and what it does
    tstart,         \* timeit wrapper: local start
    tout,           \* timeit wrapper: what the call handed to its caller
    last            \* the last direct call of a library function and its result

vars == <<debug_enabled, sample_rate, now, sink, heap, minted, pc, event, inbound,
          plan, corr_id, start_time, result, error, calls, outcome,
          tpc, tcall, tstart, tout, last>>

wrapper_vars == <<pc, event, inbound, plan, corr_id, start_time, result, error,
                  calls, outcome>>
timeit_vars == <<tpc, tcall, tstart, tout>>

----------------------------------------------------------------------------
(* Bounds of the model. *)

\* The clock stops advancing at MaxClock.
MaxClock == 2
\* Direct calls of log / log_if_debug / log_error stop when the sink holds MaxSink lines.
MaxSink == 2
\* Direct calls of get_or_create stop after MaxMints mints.
MaxMints == 2

----------------------------------------------------------------------------
(* Python values. *)

NoItems == [k \in {} |-> 0]
Leaf(tag, a, n) == [tag |-> tag, a |-> a, n |-> n, d |-> NoItems]
PyNone == Leaf("none", "", 0)
PyStr(s) == Leaf("str", s, 0)
PyNum(n) == Leaf("num", "", n)
\* A bytes object: truthy, and one of the values json.dumps cannot serialize.
PyBytes == Leaf("bytes", "x", 0)
PyDict(items) == [tag |-> "dict", a |-> "", n |-> 0, d |-> items]
EmptyDict == [k \in {} |-> PyNone]

\* Python truthiness, as `or` and `if` test it.
Truthy(v) ==
    CASE v.tag = "none" -> FALSE
      [] v.tag = "str" -> v.a # ""
      [] v.tag = "num" -> v.n # 0
      [] v.tag = "bytes" -> v.a # ""
      [] v.tag = "dict" -> DOMAIN v.d # {}

\* isinstance(v, dict)
IsDict(v) == v.tag = "dict"

\* dict.get(key), default None
DictGet(dict, key) == IF key \in DOMAIN dict THEN dict[key] ELSE PyNone

\* {**base, **over}: the right operand wins on a colliding key.
DictMerge(base, over) == over @@ base

\* Exceptions: the class name, str(e), and whether the class derives from
\* Exception (SystemExit and KeyboardInterrupt derive from BaseException only).
NoError == [type |-> "", msg |-> "", exc |-> FALSE]
TypeErrorJson == [type |-> "TypeError", msg |-> "Object is not JSON serializable", exc |-> TRUE]
TypeErrorItem == [type |-> "TypeError", msg |-> "object does not support item assignment", exc |-> TRUE]
ValueErrorRequired == [type |-> "ValueError", msg |-> "user_id is required", exc |-> TRUE]
SystemExitOne == [type |-> "SystemExit", msg |-> "1", exc |-> FALSE]

----------------------------------------------------------------------------
(* LambdaDebugger.__init__ *)

EnvDebug == {"unset", "true", "TRUE", "false", "1"}
EnvSampleRate == {"unset", "0", "0.5", "1", "1.5", "-0.5"}

\* os.environ.get('DEBUG', 'false').lower() == 'true'
DebugFromEnv(s) ==
    LET given == IF s = "unset" THEN "false" ELSE s
        lower == IF given = "TRUE" THEN "true" ELSE given
    IN lower = "true"

\* float(os.environ.get('LOG_SAMPLE_RATE', '0.01')), in percent
SampleRateFromEnv(s) ==
    CASE s = "unset" -> 1
      [] s = "0" -> 0
      [] s = "0.5" -> 50
      [] s = "1" -> 100
      [] s = "1.5" -> 150
      [] s = "-0.5" -> -50

----------------------------------------------------------------------------
(* LambdaDebugger.log, log_if_debug, log_error *)

RECURSIVE JsonSerializable(_)
\* Whether json.dumps accepts the value.
JsonSerializable(v) ==
    IF v.tag = "dict"
    THEN \A k \in DOMAIN v.d : JsonSerializable(v.d[k])
    ELSE v.tag # "bytes"

\* The log_entry dict log() builds: the base fields first, then data.
LogEntry(event_type, data, t) ==
    DictMerge([event |-> PyStr(event_type), timestamp |-> PyNum(t)], data)

\* log(event_type, data) at clock reading t: json.dumps raises TypeError on a
\* value it cannot serialize, and then nothing is printed.
log(event_type, data, t) ==
    LET log_entry == LogEntry(event_type, data, t)
    IN IF \A k \in DOMAIN log_entry : JsonSerializable(log_entry[k])
       THEN [raised |-> FALSE, err |-> NoError, lines |-> <<log_entry>>]
       ELSE [raised |-> TRUE, err |-> TypeErrorJson, lines |-> <<>>]

\* log_if_debug(event_type, data)
log_if_debug(event_type, data, t) ==
    IF debug_enabled
    THEN log(event_type, data, t)
    ELSE [raised |-> FALSE, err |-> NoError, lines |-> <<>>]

\* traceback.format_exc(): the trace of the exception being handled, if any.
FormatExc(handling) ==
    IF handling = NoError THEN "NoneType: None" ELSE handling.type

\* log_error(error, context) while `handling` is the exception being handled.
log_error(err, context, handling, t) ==
    log("error",
        [error_type |-> PyStr(err.type),
         error_message |-> PyStr(err.msg),
         traceback |-> PyStr(FormatExc(handling)),
         context |-> PyDict(IF DOMAIN context # {} THEN context ELSE EmptyDict)],
        t)

\* The lines a call printed, tagged with the caller that printed them.
Printed(by, r) == [n \in 1..Len(r.lines) |-> [by |-> by, entry |-> r.lines[n]]]

----------------------------------------------------------------------------
(* CorrelationIDMiddleware *)

\* The values uuid.uuid4() can return: independent random draws.
UUIDs == {"uuid-a", "uuid-b"}

\* Whether get_or_create(event) calls uuid.uuid4().
Mints(ev) == ~Truthy(DictGet(ev, "correlation_id"))

\* `event.get('correlation_id', str(uuid.uuid4()))`: the default only when the key is absent.
get_or_create_KeyDefault(ev, u) ==
    IF "correlation_id" \in DOMAIN ev THEN ev["correlation_id"] ELSE PyStr(u)

\* get_or_create(event), u being what uuid.uuid4() returns if it is called.
get_or_create(ev, u) ==
    IF Truthy(DictGet(ev, "correlation_id"))
    THEN DictGet(ev, "correlation_id")
    ELSE PyStr(u)

\* add_to_response(response, correlation_id): the dict after the call, or the
\* TypeError of an item assignment on a headers value that is no mapping.
add_to_response(response, id) ==
    LET r1 == IF "headers" \notin DOMAIN response
              THEN DictMerge(response, [headers |-> PyDict(EmptyDict)])
              ELSE response
    IN IF IsDict(r1["headers"])
       THEN [raised |-> FALSE, err |-> NoError,
             response |-> [r1 EXCEPT !["headers"] =
                              PyDict(DictMerge(r1["headers"].d, ("X-Correlation-ID" :> id)))]]
       ELSE [raised |-> TRUE, err |-> TypeErrorItem, response |-> r1]

\* add_to_next_lambda_payload(payload, correlation_id)
add_to_next_lambda_payload(payload, id) ==
    DictMerge(payload, [correlation_id |-> id])

----------------------------------------------------------------------------
(* time *)

\* round(duration_ms, 2), in hundredths of a millisecond, of a duration of
\* `ticks` clock units of 0.005 ms: on a decimal tie the float's binary
\* expansion decides, so either neighbour is possible.
Round2(ticks) ==
    IF ticks % 2 = 0 THEN {ticks \div 2} ELSE {ticks \div 2, (ticks \div 2) + 1}

\* The operands of the subtraction exchanged.
DurationMsSwapped(start, end) == Round2(start - end)

\* (time.time() - start) * 1000, rounded
DurationMs(start, end) == Round2(end - start)

\* The clock advances.
Tick ==
    /\ now < MaxClock
    /\ now' = now + 1
    /\ UNCHANGED <<debug_enabled, sample_rate, sink, heap, minted, last>>
    /\ UNCHANGED wrapper_vars
    /\ UNCHANGED timeit_vars

----------------------------------------------------------------------------
(* The invocation context (the MockContext of the module's example). *)

RequestId == "local-test"
FunctionName == "test-function"
MemoryLimitMb == 128
RemainingMs == 3000

----------------------------------------------------------------------------
(* lambda_debug_wrapper: the inputs of an invocation. *)

\* The invocations that may be in progress at once.
Procs == {1, 2}

\* The dict objects: one allocated by each invocation's handler, and one
\* module-level dict a handler may return from every invocation.
Own(i) == IF i = 1 THEN "own1" ELSE "own2"
ObjIds == {"shared", "own1", "own2"}
SharedResponse == [statusCode |-> PyNum(200)]

\* Inbound requests: correlation_id absent, None, '', a string or a bytes
\* object, and a body that json.dumps can or cannot serialize.
CidChoices == {[present |-> FALSE, v |-> PyNone], [present |-> TRUE, v |-> PyNone],
               [present |-> TRUE, v |-> PyStr("")],
               [present |-> TRUE, v |-> PyStr("abc")], [present |-> TRUE, v |-> PyBytes]}
BodyChoices == {PyStr("payload"), PyBytes}
Request(cid, body) ==
    IF cid.present THEN [correlation_id |-> cid.v, body |-> body] ELSE [body |-> body]
Requests == {Request(cid, body) : cid \in CidChoices, body \in BodyChoices}

\* The dicts a handler builds: headers absent, None, a string, or a mapping
\* that is empty, holds another header, or already holds X-Correlation-ID.
HeaderChoices == {[present |-> FALSE, v |-> PyNone], [present |-> TRUE, v |-> PyNone],
                  [present |-> TRUE, v |-> PyStr("text/plain")],
                  [present |-> TRUE, v |-> PyDict(EmptyDict)],
                  [present |-> TRUE, v |-> PyDict([A |-> PyStr("b")])],
                  [present |-> TRUE, v |-> PyDict(("X-Correlation-ID" :> PyStr("old"))
                                                    @@ [A |-> PyStr("b")])]}
Response(h) ==
    IF h.present THEN [statusCode |-> PyNum(200), headers |-> h.v]
    ELSE [statusCode |-> PyNum(200)]
Responses == {Response(h) : h \in HeaderChoices}

\* What a wrapped handler does: it may overwrite the request's correlation_id,
\* and then returns a non-mapping value, returns a dict it builds, returns the
\* module-level dict, or raises.
Plan(mutate, does, val, body, err) ==
    [mutate |-> mutate, does |-> does, val |-> val, body |-> body, err |-> err]
PlansFor(mutates, values, bodies, errors, shared) ==
    {Plan(m, "return_value", v, EmptyDict, NoError) : m \in mutates, v \in values}
    \cup {Plan(m, "return_own", PyNone, b, NoError) : m \in mutates, b \in bodies}
    \cup {Plan(m, "return_shared", PyNone, EmptyDict, NoError) : m \in mutates, b \in shared}
    \cup {Plan(m, "raise", PyNone, EmptyDict, e) : m \in mutates, e \in errors}
Plans == PlansFor(BOOLEAN, {PyNone, PyStr("ok")}, Responses,
                  {ValueErrorRequired, SystemExitOne}, {TRUE})

\* The inputs of the invocations that run concurrently.
ConcRequests == {Request(cid, PyStr("payload")) :
                     cid \in {[present |-> FALSE, v |-> PyNone],
                              [present |-> TRUE, v |-> PyStr("abc")]}}
ConcPlans == PlansFor({FALSE}, {}, {Response([present |-> FALSE, v |-> PyNone])},
                      {ValueErrorRequired}, {TRUE})

NoResult == [isref |-> FALSE, ref |-> "", val |-> PyNone]
RefResult(o) == [isref |-> TRUE, ref |-> o, val |-> PyNone]
ValResult(v) == [isref |-> FALSE, ref |-> "", val |-> v]
Pending == [kind |-> "pending", result |-> NoResult, seen |-> EmptyDict, err |-> NoError]
\* The invocation returned `r`; `seen` is the dict the caller receives, as it
\* is at the moment of the return.
Returned(r) ==
    [kind |-> "returned", result |-> r,
     seen |-> IF r.isref THEN heap[r.ref] ELSE EmptyDict, err |-> NoError]
Raised(e) == [kind |-> "raised", result |-> NoResult, seen |-> EmptyDict, err |-> e]

----------------------------------------------------------------------------
(* lambda_debug_wrapper.wrapper, one action per statement. *)

UnchangedLib == UNCHANGED <<debug_enabled, sample_rate, now, last>> /\ UNCHANGED timeit_vars

\* wrapper(event, context) is called.
Enter(i, req, p) ==
    /\ pc[i] = "idle"
    /\ pc' = [pc EXCEPT ![i] = "resolve"]
    /\ event' = [event EXCEPT ![i] = req]
    /\ inbound' = [inbound EXCEPT ![i] = req]
    /\ plan' = [plan EXCEPT ![i] = p]
    /\ UNCHANGED <<corr_id, start_time, result, error, calls, outcome, sink, heap, minted>>
    /\ UnchangedLib

W_Enter(i) == \E req \in Requests, p \in Plans : Enter(i, req, p)

W_EnterConc(i) == \E req \in ConcRequests, p \in ConcPlans : Enter(i, req, p)

\* corr_id = correlation.get_or_create(event)
W_Resolve(i) ==
    /\ pc[i] = "resolve"
    /\ \E u \in (IF Mints(event[i]) THEN UUIDs ELSE {"unused"}) :
          /\ corr_id' = [corr_id EXCEPT ![i] = get_or_create(event[i], u)]
          /\ minted' = IF Mints(event[i]) THEN Append(minted, u) ELSE minted
    /\ pc' = [pc EXCEPT ![i] = "log_start"]
    /\ UNCHANGED <<event, inbound, plan, start_time, result, error, calls, outcome, sink, heap>>
    /\ UnchangedLib

\* debugger.log('request_start', {...}); outside the try block
W_LogStart(i) ==
    /\ pc[i] = "log_start"
    /\ LET r == log("request_start",
                    [correlation_id |-> corr_id[i], request_id |-> PyStr(RequestId),
                     function_name |-> PyStr(FunctionName)], now)
       IN /\ sink' = sink \o Printed(i, r)
          /\ IF r.raised
             THEN /\ outcome' = [outcome EXCEPT ![i] = Raised(r.err)]
                  /\ pc' = [pc EXCEPT ![i] = "done"]
             ELSE /\ outcome' = outcome
                  /\ pc' = [pc EXCEPT ![i] = "log_debug"]
    /\ UNCHANGED <<event, inbound, plan, corr_id, start_time, result, error, calls, heap, minted>>
    /\ UnchangedLib

\* debugger.log_if_debug('full_event', {...}); outside the try block
W_LogDebug(i) ==
    /\ pc[i] = "log_debug"
    /\ LET r == log_if_debug("full_event",
                             [correlation_id |-> corr_id[i], event |-> PyDict(event[i])], now)
       IN /\ sink' = sink \o Printed(i, r)
          /\ IF r.raised
             THEN /\ outcome' = [outcome EXCEPT ![i] = Raised(r.err)]
                  /\ pc' = [pc EXCEPT ![i] = "done"]
             ELSE /\ outcome' = outcome
                  /\ pc' = [pc EXCEPT ![i] = "timer"]
    /\ UNCHANGED <<event, inbound, plan, corr_id, start_time, result, error, calls, heap, minted>>
    /\ UnchangedLib

\* start_time = time.time()
W_Timer(i) ==
    /\ pc[i] = "timer"
    /\ start_time' = [start_time EXCEPT ![i] = now]
    /\ pc' = [pc EXCEPT ![i] = "call"]
    /\ UNCHANGED <<event, inbound, plan, corr_id, result, error, calls, outcome, sink, heap, minted>>
    /\ UnchangedLib

\* try: result = handler(event, context) ... except Exception as e:
\* an exception that does not derive from Exception leaves the wrapper at once.
W_Call(i) ==
    /\ pc[i] = "call"
    /\ calls' = [calls EXCEPT ![i] = @ + 1]
    /\ event' = [event EXCEPT ![i] =
                    IF plan[i].mutate
                    THEN DictMerge(@, [correlation_id |-> PyStr("handler-id")])
                    ELSE @]
    /\ heap' = IF plan[i].does = "return_own"
               THEN [heap EXCEPT ![Own(i)] = plan[i].body]
               ELSE heap
    /\ result' = [result EXCEPT ![i] =
                    CASE plan[i].does = "return_value" -> ValResult(plan[i].val)
                      [] plan[i].does = "return_own" -> RefResult(Own(i))
                      [] plan[i].does = "return_shared" -> RefResult("shared")
                      [] plan[i].does = "raise" -> NoResult]
    /\ IF plan[i].does # "raise"
       THEN /\ pc' = [pc EXCEPT ![i] = "log_end"]
            /\ UNCHANGED <<error, outcome>>
       ELSE IF plan[i].err.exc
            THEN /\ pc' = [pc EXCEPT ![i] = "except"]
                 /\ error' = [error EXCEPT ![i] = plan[i].err]
                 /\ outcome' = outcome
            ELSE /\ pc' = [pc EXCEPT ![i] = "done"]
                 /\ error' = error
                 /\ outcome' = [outcome EXCEPT ![i] = Raised(plan[i].err)]
    /\ UNCHANGED <<inbound, plan, corr_id, start_time, sink, minted>>
    /\ UnchangedLib

\* duration_ms = ...; debugger.log('request_end', {...}); inside the try block
W_LogEnd(i) ==
    /\ pc[i] = "log_end"
    /\ \E duration_ms \in DurationMs(start_time[i], now) :
          LET r == log("request_end",
                       [correlation_id |-> corr_id[i], duration_ms |-> PyNum(duration_ms),
                        status |-> PyStr("success"),
                        memory_used_mb |-> PyNum(MemoryLimitMb),
                        time_remaining_ms |-> PyNum(RemainingMs)], now)
          IN /\ sink' = sink \o Printed(i, r)
             /\ IF r.raised
                THEN /\ error' = [error EXCEPT ![i] = r.err]
                     /\ pc' = [pc EXCEPT ![i] = "except"]
                ELSE /\ error' = error
                     /\ pc' = [pc EXCEPT ![i] = "augment"]
    /\ UNCHANGED <<event, inbound, plan, corr_id, start_time, result, calls, outcome, heap, minted>>
    /\ UnchangedLib

\* if isinstance(result, dict): result = correlation.add_to_response(result, corr_id)
\* inside the try block: a TypeError of add_to_response reaches the except clause.
W_Augment(i) ==
    /\ pc[i] = "augment"
    /\ IF result[i].isref
       THEN LET r == add_to_response(heap[result[i].ref], corr_id[i])
            IN /\ heap' = [heap EXCEPT ![result[i].ref] = r.response]
               /\ IF r.raised
                  THEN /\ error' = [error EXCEPT ![i] = r.err]
                       /\ pc' = [pc EXCEPT ![i] = "except"]
                  ELSE /\ error' = error
                       /\ pc' = [pc EXCEPT ![i] = "return"]
       ELSE /\ heap' = heap
            /\ error' = error
            /\ pc' = [pc EXCEPT ![i] = "return"]
    /\ UNCHANGED <<event, inbound, plan, corr_id, start_time, result, calls, outcome, sink, minted>>
    /\ UnchangedLib

\* return result
W_Return(i) ==
    /\ pc[i] = "return"
    /\ outcome' = [outcome EXCEPT ![i] = Returned(result[i])]
    /\ pc' = [pc EXCEPT ![i] = "done"]
    /\ UNCHANGED <<event, inbound, plan, corr_id, start_time, result, error, calls, sink, heap, minted>>
    /\ UnchangedLib

\* except Exception as e: duration_ms = ...; debugger.log_error(e, {...})
W_Except(i) ==
    /\ pc[i] = "except"
    /\ \E duration_ms \in DurationMs(start_time[i], now) :
          LET r == log_error(error[i],
                             [correlation_id |-> corr_id[i], request_id |-> PyStr(RequestId),
                              duration_ms |-> PyNum(duration_ms)], error[i], now)
          IN /\ sink' = sink \o Printed(i, r)
             /\ IF r.raised
                THEN /\ outcome' = [outcome EXCEPT ![i] = Raised(r.err)]
                     /\ pc' = [pc EXCEPT ![i] = "done"]
                ELSE /\ outcome' = outcome
                     /\ pc' = [pc EXCEPT ![i] = "reraise"]
    /\ UNCHANGED <<event, inbound, plan, corr_id, start_time, result, error, calls, heap, minted>>
    /\ UnchangedLib

\* `raise RuntimeError(str(e))` in place of the bare `raise`.
W_ReraiseWrapped(i) ==
    /\ pc[i] = "reraise"
    /\ outcome' = [outcome EXCEPT ![i] =
                      Raised([type |-> "RuntimeError", msg |-> error[i].msg, exc |-> TRUE])]
    /\ pc' = [pc EXCEPT ![i] = "done"]
    /\ UNCHANGED <<event, inbound, plan, corr_id, start_time, result, error, calls, sink, heap, minted>>
    /\ UnchangedLib

\* raise
W_Reraise(i) ==
    /\ pc[i] = "reraise"
    /\ outcome' = [outcome EXCEPT ![i] = Raised(error[i])]
    /\ pc' = [pc EXCEPT ![i] = "done"]
    /\ UNCHANGED <<event, inbound, plan, corr_id, start_time, result, error, calls, sink, heap, minted>>
    /\ UnchangedLib

\* One statement of invocation i.
W_Step(i) ==
    \/ W_Resolve(i)
    \/ W_LogStart(i)
    \/ W_LogDebug(i)
    \/ W_Timer(i)
    \/ W_Call(i)
    \/ W_LogEnd(i)
    \/ W_Augment(i)
    \/ W_Return(i)
    \/ W_Except(i)
    \/ W_Reraise(i)

----------------------------------------------------------------------------
(* Initial states. *)

\* The debugger as LambdaDebugger.__init__ leaves it.
InitConfig ==
    /\ debug_enabled \in {DebugFromEnv(s) : s \in EnvDebug}
    /\ sample_rate \in {SampleRateFromEnv(s) : s \in EnvSampleRate}

InitWrapper ==
    /\ pc = [i \in Procs |-> "idle"]
    /\ event = [i \in Procs |-> EmptyDict]
    /\ inbound = [i \in Procs |-> EmptyDict]
    /\ plan = [i \in Procs |-> Plan(FALSE, "none", PyNone, EmptyDict, NoError)]
    /\ corr_id = [i \in Procs |-> PyNone]
    /\ start_time = [i \in Procs |-> 0]
    /\ result = [i \in Procs |-> NoResult]
    /\ error = [i \in Procs |-> NoError]
    /\ calls = [i \in Procs |-> 0]
    /\ outcome = [i \in Procs |-> Pending]

InitTimeit ==
    /\ tpc = "idle"
    /\ tcall = [name |-> "", does |-> "none", val |-> PyNone, err |-> NoError,
                before |-> 0, e |-> NoError]
    /\ tstart = 0
    /\ tout = Pending

NoCall == [op |-> "none"]

InitCommon ==
    /\ now = 0
    /\ sink = <<>>
    /\ heap = [o \in ObjIds |-> IF o = "shared" THEN SharedResponse ELSE EmptyDict]
    /\ minted = <<>>
    /\ last = NoCall
    /\ InitWrapper
    /\ InitTimeit

----------------------------------------------------------------------------
(* One invocation of the wrapped handler, any request and any handler. *)

InitW ==
    /\ debug_enabled \in {DebugFromEnv(s) : s \in EnvDebug}
    /\ sample_rate = SampleRateFromEnv("unset")
    /\ InitCommon

NextW ==
    \/ Tick
    \/ W_Enter(1)
    \/ W_Step(1)

SpecWrapper == InitW /\ [][NextW]_vars

(* Two invocations of the wrapped handler in progress at once (the clock    *)
(* readings do not affect the control flow and the clock is left at rest).  *)

NextConc ==
    \/ \E i \in Procs : W_EnterConc(i)
    \/ \E i \in Procs : W_Step(i)

SpecConc == InitW /\ [][NextConc]_vars

----------------------------------------------------------------------------
(* Direct calls of the logger. *)

EventTypes == {"user_processed", "error"}
\* Payloads: user_id absent, a string or a bytes object; the reserved keys
\* event and timestamp absent or supplied by the caller.
Payload(user, ev, ts) ==
    DictMerge(DictMerge(IF user.present THEN [user_id |-> user.v] ELSE EmptyDict,
                        IF ev THEN [event |-> PyStr("custom")] ELSE EmptyDict),
              IF ts THEN [timestamp |-> PyNum(99)] ELSE EmptyDict)
Payloads ==
    {Payload(user, ev, ts) :
        user \in {[present |-> FALSE, v |-> PyNone], [present |-> TRUE, v |-> PyStr("123")],
                  [present |-> TRUE, v |-> PyBytes]},
        ev \in BOOLEAN, ts \in BOOLEAN}
Contexts == {EmptyDict, [user_id |-> PyStr("123")]}
Errors == {ValueErrorRequired, SystemExitOne}

UnchangedButSink ==
    /\ UNCHANGED <<debug_enabled, sample_rate, now, heap, minted>>
    /\ UNCHANGED wrapper_vars
    /\ UNCHANGED timeit_vars

\* debugger.log(event_type, data)
Call_log(event_type, data) ==
    /\ Len(sink) < MaxSink
    /\ LET r == log(event_type, data, now)
       IN /\ sink' = sink \o Printed(0, r)
          /\ last' = [op |-> "log", event_type |-> event_type, data |-> data, t |-> now,
                      before |-> Len(sink), raised |-> r.raised, err |-> r.err]
    /\ UnchangedButSink

\* debugger.log_if_debug(event_type, data)
Call_log_if_debug(event_type, data) ==
    /\ Len(sink) < MaxSink
    /\ LET r == log_if_debug(event_type, data, now)
       IN /\ sink' = sink \o Printed(0, r)
          /\ last' = [op |-> "log_if_debug", event_type |-> event_type, data |-> data,
                      t |-> now, before |-> Len(sink), raised |-> r.raised, err |-> r.err]
    /\ UnchangedButSink

\* debugger.log_error(error, context), inside or outside an except clause
Call_log_error(err, context, handling) ==
    /\ Len(sink) < MaxSink
    /\ LET r == log_error(err, context, handling, now)
       IN /\ sink' = sink \o Printed(0, r)
          /\ last' = [op |-> "log_error", error |-> err, context |-> context,
                      handling |-> handling, t |-> now, before |-> Len(sink),
                      raised |-> r.raised, err |-> r.err]
    /\ UnchangedButSink

InitL ==
    /\ debug_enabled \in {DebugFromEnv(s) : s \in EnvDebug}
    /\ sample_rate = SampleRateFromEnv("unset")
    /\ InitCommon

NextL ==
    \/ Tick
    \/ \E e \in EventTypes, data \in Payloads : Call_log(e, data)
    \/ \E e \in EventTypes, data \in Payloads : Call_log_if_debug(e, data)
    \/ \E err \in Errors, context \in Contexts :
          \E handling \in {NoError, err} : Call_log_error(err, context, handling)

SpecLog == InitL /\ [][NextL]_vars

----------------------------------------------------------------------------
(* Direct calls of the sampling gate. *)

\* random.random(), in percent: 0 <= draw < 100.
DrawsPct == {0, 1, 50, 99}
\* custom_rate: None, or a rate in percent (not validated, not clamped).
NoRate == [given |-> FALSE, rate |-> 0]
CustomRates == {NoRate} \cup {[given |-> TRUE, rate |-> r] : r \in {-50, 0, 1, 50, 100, 150}}

\* `custom_rate or self.sample_rate`: a custom rate of 0 falls back to the default.
EffectiveRateOr(custom_rate) ==
    IF custom_rate.given /\ custom_rate.rate # 0 THEN custom_rate.rate ELSE sample_rate

\* rate = custom_rate if custom_rate is not None else self.sample_rate
EffectiveRate(custom_rate) ==
    IF custom_rate.given THEN custom_rate.rate ELSE sample_rate

\* should_log(custom_rate), `draw` being what random.random() returns
should_log(custom_rate, draw) == draw < EffectiveRate(custom_rate)

Call_should_log(custom_rate) ==
    /\ \E draw \in DrawsPct :
          last' = [op |-> "should_log", custom_rate |-> custom_rate, draw |-> draw,
                   ret |-> should_log(custom_rate, draw),
                   config |-> <<debug_enabled, sample_rate>>, printed |-> Len(sink)]
    /\ UNCHANGED <<debug_enabled, sample_rate, now, sink, heap, minted>>
    /\ UNCHANGED wrapper_vars
    /\ UNCHANGED timeit_vars

InitS ==
    /\ InitConfig
    /\ InitCommon

NextS == \E custom_rate \in CustomRates : Call_should_log(custom_rate)

SpecSample == InitS /\ [][NextS]_vars

----------------------------------------------------------------------------
(* Direct calls of the correlation-ID middleware. *)

\* Requests whose correlation_id is absent, None, '', 0, a string or bytes.
CidChoicesAll == CidChoices \cup {[present |-> TRUE, v |-> PyNum(0)]}
RequestsAll == {Request(cid, PyStr("payload")) : cid \in CidChoicesAll}
CorrIds == {PyStr("id1"), PyStr("id2")}

\* correlation.get_or_create(event)
Call_get_or_create(ev) ==
    /\ Len(minted) < MaxMints
    /\ \E u \in (IF Mints(ev) THEN UUIDs ELSE {"unused"}) :
          /\ minted' = IF Mints(ev) THEN Append(minted, u) ELSE minted
          /\ last' = [op |-> "get_or_create", event |-> ev, ret |-> get_or_create(ev, u),
                      before |-> Len(minted)]
    /\ UNCHANGED <<debug_enabled, sample_rate, now, sink, heap>>
    /\ UNCHANGED wrapper_vars
    /\ UNCHANGED timeit_vars

\* correlation.add_to_response(response, correlation_id) on dict object o:
\* the dict is mutated in place and returned.
Call_add_to_response(o, id) ==
    /\ LET r == add_to_response(heap[o], id)
       IN /\ heap' = [heap EXCEPT ![o] = r.response]
          /\ last' = [op |-> "add_to_response", obj |-> o, response |-> heap[o], id |-> id,
                      raised |-> r.raised, err |-> r.err,
                      ret |-> IF r.raised THEN "" ELSE o]
    /\ UNCHANGED <<debug_enabled, sample_rate, now, sink, minted>>
    /\ UNCHANGED wrapper_vars
    /\ UNCHANGED timeit_vars

\* correlation.add_to_next_lambda_payload(payload, correlation_id) on dict object o
Call_add_to_next_lambda_payload(o, id) ==
    /\ heap' = [heap EXCEPT ![o] = add_to_next_lambda_payload(heap[o], id)]
    /\ last' = [op |-> "add_to_next_lambda_payload", obj |-> o, payload |-> heap[o],
                id |-> id, ret |-> o]
    /\ UNCHANGED <<debug_enabled, sample_rate, now, sink, minted>>
    /\ UNCHANGED wrapper_vars
    /\ UNCHANGED timeit_vars

\* The caller's dicts: any of the response shapes, a payload, an empty dict.
InitC ==
    /\ debug_enabled = DebugFromEnv("unset")
    /\ sample_rate = SampleRateFromEnv("unset")
    /\ now = 0
    /\ sink = <<>>
    /\ heap \in {[o \in ObjIds |-> CASE o = "shared" -> response
                                    [] o = "own1" -> [user_id |-> PyStr("123")]
                                    [] o = "own2" -> EmptyDict] : response \in Responses}
    /\ minted = <<>>
    /\ last = NoCall
    /\ InitWrapper
    /\ InitTimeit

NextC ==
    \/ \E ev \in RequestsAll : Call_get_or_create(ev)
    \/ \E o \in {"shared", "own2"}, id \in CorrIds : Call_add_to_response(o, id)
    \/ \E id \in CorrIds : Call_add_to_next_lambda_payload("own1", id)

SpecCorr == InitC /\ [][NextC]_vars

----------------------------------------------------------------------------
(* LambdaDebugger.timeit: calls of a wrapped callable, one action per statement. *)

FunctionNames == {"get_user_data", "process_data"}
\* What the wrapped callable does with its arguments: it returns a value or raises.
TimedCalls ==
    {[name |-> f, does |-> "return", val |-> v, err |-> NoError] :
        f \in FunctionNames, v \in {PyNone, PyStr("item"), PyBytes}}
    \cup {[name |-> f, does |-> "raise", val |-> PyNone, err |-> e] :
             f \in FunctionNames, e \in Errors}

UnchangedByTimeit ==
    /\ UNCHANGED <<debug_enabled, sample_rate, now, heap, minted, last>>
    /\ UNCHANGED wrapper_vars

\* wrapper(*args, **kwargs) is called.
T_Enter(c) ==
    /\ tpc \in {"idle", "done"}
    /\ Len(sink) < MaxSink
    /\ tcall' = [name |-> c.name, does |-> c.does, val |-> c.val, err |-> c.err,
                 before |-> Len(sink), e |-> NoError]
    /\ tout' = Pending
    /\ tpc' = "start"
    /\ UNCHANGED <<tstart, sink>>
    /\ UnchangedByTimeit

\* start = time.time()
T_Start ==
    /\ tpc = "start"
    /\ tstart' = now
    /\ tpc' = "call"
    /\ UNCHANGED <<tcall, tout, sink>>
    /\ UnchangedByTimeit

\* try: result = func(*args, **kwargs) ... except Exception as e:
T_Call ==
    /\ tpc = "call"
    /\ IF tcall.does = "return"
       THEN /\ tpc' = "log_success"
            /\ UNCHANGED <<tcall, tout>>
       ELSE IF tcall.err.exc
            THEN /\ tpc' = "log_error"
                 /\ tcall' = [tcall EXCEPT !.e = tcall.err]
                 /\ tout' = tout
            ELSE /\ tpc' = "done"
                 /\ tcall' = tcall
                 /\ tout' = Raised(tcall.err)
    /\ UNCHANGED <<tstart, sink>>
    /\ UnchangedByTimeit

\* duration_ms = ...; self.log('function_timing', {... 'status': 'success'}); in the try block
T_LogSuccess ==
    /\ tpc = "log_success"
    /\ \E duration_ms \in DurationMs(tstart, now) :
          LET r == log("function_timing",
                       [function |-> PyStr(tcall.name), duration_ms |-> PyNum(duration_ms),
                        status |-> PyStr("success")], now)
          IN /\ sink' = sink \o Printed(0, r)
             /\ IF r.raised
                THEN /\ tcall' = [tcall EXCEPT !.e = r.err]
                     /\ tpc' = "log_error"
                ELSE /\ tcall' = tcall
                     /\ tpc' = "return"
    /\ UNCHANGED <<tstart, tout>>
    /\ UnchangedByTimeit

\* return result
T_Return ==
    /\ tpc = "return"
    /\ tout' = Returned(ValResult(tcall.val))
    /\ tpc' = "done"
    /\ UNCHANGED <<tcall, tstart, sink>>
    /\ UnchangedByTimeit

\* duration_ms = ...; self.log('function_timing', {... 'status': 'error', 'error': str(e)})
T_LogError ==
    /\ tpc = "log_error"
    /\ \E duration_ms \in DurationMs(tstart, now) :
          LET r == log("function_timing",
                       [function |-> PyStr(tcall.name), duration_ms |-> PyNum(duration_ms),
                        status |-> PyStr("error"), error |-> PyStr(tcall.e.msg)], now)
          IN /\ sink' = sink \o Printed(0, r)
             /\ IF r.raised
                THEN /\ tout' = Raised(r.err)
                     /\ tpc' = "done"
                ELSE /\ tout' = tout
                     /\ tpc' = "reraise"
    /\ UNCHANGED <<tcall, tstart>>
    /\ UnchangedByTimeit

\* raise
T_Reraise ==
    /\ tpc = "reraise"
    /\ tout' = Raised(tcall.e)
    /\ tpc' = "done"
    /\ UNCHANGED <<tcall, tstart, sink>>
    /\ UnchangedByTimeit

NextT ==
    \/ Tick
    \/ \E c \in TimedCalls : T_Enter(c)
    \/ T_Start
    \/ T_Call
    \/ T_LogSuccess
    \/ T_Return
    \/ T_LogError
    \/ T_Reraise

SpecTimeit == InitL /\ [][NextT]_vars

----------------------------------------------------------------------------
(* The invocations of the wrapped handler the claims speak of. *)

\* The log entries invocation i printed, oldest first.
LinesOf(i) == SelectSeq(sink, LAMBDA l : l.by = i)
EntriesOf(i) == [n \in 1..Len(LinesOf(i)) |-> LinesOf(i)[n].entry]
\* The positions in a sequence of entries whose event tag is `tag`.
Tagged(entries, tag) == {n \in 1..Len(entries) : entries[n]["event"] = PyStr(tag)}
\* Entry e holds key k with value v.
Holds(e, k, v) == k \in DOMAIN e /\ e[k] = v

\* The wrapped handler of invocation i was invoked and returned / raised an error.
HandlerReturned(i) == calls[i] >= 1 /\ plan[i].does \in {"return_value", "return_own", "return_shared"}
HandlerRaised(i) == calls[i] >= 1 /\ plan[i].does = "raise" /\ plan[i].err.exc
ReturnsMapping(i) == plan[i].does \in {"return_own", "return_shared"}
\* The dict the handler of invocation i returned, as the handler left it.
HandlerDict(i) == IF plan[i].does = "return_own" THEN plan[i].body ELSE SharedResponse

\* The correlation ID of the inbound request as the specification resolves it:
\* the request's correlation_id if present and non-empty, else the minted one.
NonEmpty(v) == v # PyNone /\ v # PyStr("")
SpecResolved(req, fresh) ==
    IF "correlation_id" \in DOMAIN req /\ NonEmpty(req["correlation_id"])
    THEN req["correlation_id"]
    ELSE PyStr(fresh)
LastMinted == IF Len(minted) > 0 THEN minted[Len(minted)] ELSE ""

\* X-Correlation-ID of a response dict, None when there is none.
CorrelationHeader(response) ==
    IF "headers" \in DOMAIN response /\ IsDict(response["headers"])
    THEN DictGet(response["headers"].d, "X-Correlation-ID")
    ELSE PyNone

\* C1: whenever the wrapped handler returns normally, the wrapper returns the
\* handler's result; a mapping result comes back with headers["X-Correlation-ID"]
\* equal to the correlation ID resolved from the inbound request and every other
\* field unchanged, a non-mapping result comes back unmodified; request_start and
\* request_end carry the same resolved ID, whatever the handler did to the
\* request or put in its headers.
C1_WrapperReturnsAugmentedResult ==
    (pc[1] = "done" /\ HandlerReturned(1)) =>
        LET id == SpecResolved(inbound[1], LastMinted)
            seen == outcome[1].seen
            entries == EntriesOf(1)
        IN /\ outcome[1].kind = "returned"
           /\ ReturnsMapping(1) =>
                 /\ outcome[1].result.isref
                 /\ CorrelationHeader(seen) = id
                 /\ DOMAIN seen = DOMAIN HandlerDict(1) \cup {"headers"}
                 /\ \A k \in DOMAIN HandlerDict(1) \ {"headers"} : seen[k] = HandlerDict(1)[k]
           /\ ~ReturnsMapping(1) => outcome[1].result = ValResult(plan[1].val)
           /\ \A n \in Tagged(entries, "request_start") \cup Tagged(entries, "request_end") :
                 Holds(entries[n], "correlation_id", id)

\* C2: a successful invocation prints exactly request_start then request_end
\* when the debug flag is off; when it is on it prints exactly three entries,
\* the middle one tagged full_event and holding the correlation ID and the
\* entire inbound request; request_start (and the debug entry) precede the
\* handler's invocation, request_end precedes the wrapper's return.
C2_EntriesOfSuccessfulInvocation ==
    LET entries == EntriesOf(1)
        before == IF debug_enabled THEN 2 ELSE 1
    IN /\ pc[1] \in {"timer", "call"} =>
             /\ Len(entries) = before
             /\ entries[1]["event"] = PyStr("request_start")
       /\ pc[1] = "return" => entries[Len(entries)]["event"] = PyStr("request_end")
       /\ (pc[1] = "done" /\ outcome[1].kind = "returned") =>
             /\ Len(entries) = before + 1
             /\ entries[1]["event"] = PyStr("request_start")
             /\ entries[Len(entries)]["event"] = PyStr("request_end")
             /\ debug_enabled =>
                   /\ entries[2]["event"] = PyStr("full_event")
                   /\ Holds(entries[2], "correlation_id", corr_id[1])
                   /\ \E k \in DOMAIN entries[2] : entries[2][k] = PyDict(inbound[1])

\* C3: whenever the wrapped handler raises an error E (an Exception), the
\* entries of the invocation are request_start, the debug-gated entry when the
\* debug flag is on, and then exactly one error entry whose context holds
\* correlation_id, request_id and duration_ms; there is no request_end entry;
\* the wrapper then raises E itself, type and message unchanged, and returns
\* nothing.
C3_HandlerErrorLoggedAndReraised ==
    HandlerRaised(1) =>
        LET entries == EntriesOf(1)
            before == IF debug_enabled THEN 2 ELSE 1
        IN /\ entries[1]["event"] = PyStr("request_start")
           /\ Tagged(entries, "request_end") = {}
           /\ debug_enabled => Holds(entries[2], "correlation_id", corr_id[1])
           /\ pc[1] = "except" => Len(entries) = before /\ Tagged(entries, "error") = {}
           /\ pc[1] \in {"reraise", "done"} =>
                 /\ Len(entries) = before + 1
                 /\ Tagged(entries, "error") = {before + 1}
                 /\ "context" \in DOMAIN entries[before + 1]
                 /\ IsDict(entries[before + 1]["context"])
                 /\ DOMAIN entries[before + 1]["context"].d =
                        {"correlation_id", "request_id", "duration_ms"}
                 /\ entries[before + 1]["context"].d["correlation_id"] = corr_id[1]
                 /\ entries[before + 1]["context"].d["request_id"] = PyStr(RequestId)
                 /\ entries[before + 1]["error_type"] = PyStr(plan[1].err.type)
                 /\ entries[before + 1]["error_message"] = PyStr(plan[1].err.msg)
           /\ pc[1] \in {"except", "reraise"} => outcome[1] = Pending
           /\ pc[1] = "done" => outcome[1] = Raised(plan[1].err)

C3_Witness ==
    /\ pc[1] = "done"
    /\ HandlerRaised(1)
    /\ debug_enabled
    /\ outcome[1] = Raised(ValueErrorRequired)
    /\ Tagged(EntriesOf(1), "error") = {3}

\* C9: an invocation whose handler returned a value or raised an error invoked
\* the handler exactly once and took exactly one of the two paths: it printed
\* one request_end entry or one error entry, never both, and an error entry
\* only when the handler itself raised.
C9_ExactlyOnePath ==
    (pc[1] = "done" /\ (HandlerReturned(1) \/ HandlerRaised(1))) =>
        LET entries == EntriesOf(1)
            ends == Cardinality(Tagged(entries, "request_end"))
            errors == Cardinality(Tagged(entries, "error"))
        IN /\ calls[1] = 1
           /\ ends + errors = 1
           /\ errors = 1 => HandlerRaised(1)

\* C10: under every interleaving of two invocations each one returns the
\* response and prints the entries it would have produced alone: the
\* X-Correlation-ID header of the response an invocation returns is its own
\* resolved correlation ID, its entries carry that ID, and the configuration
\* stays what __init__ made of the environment.
C10_InvocationsDoNotInteract ==
    /\ \A i \in Procs :
          /\ (outcome[i].kind = "returned" /\ outcome[i].result.isref) =>
                 CorrelationHeader(outcome[i].seen) = corr_id[i]
          /\ \A n \in 1..Len(EntriesOf(i)) :
                 "correlation_id" \in DOMAIN EntriesOf(i)[n] =>
                     EntriesOf(i)[n]["correlation_id"] = corr_id[i]
    /\ sample_rate = SampleRateFromEnv("unset")

----------------------------------------------------------------------------
(* The direct calls the claims speak of. *)

\* C4: log(e, data) writes exactly one entry for every event type and every
\* payload; the entry holds every key of data with its value, a timestamp, and
\* event == e, the caller's value winning when data supplies event or timestamp.
C4_LogWritesOneEntry ==
    last.op = "log" =>
        /\ ~last.raised
        /\ Len(sink) = last.before + 1
        /\ LET entry == sink[Len(sink)].entry
           IN /\ \A k \in DOMAIN last.data : Holds(entry, k, last.data[k])
              /\ "timestamp" \in DOMAIN entry
              /\ "timestamp" \notin DOMAIN last.data => entry["timestamp"] = PyNum(last.t)
              /\ "event" \notin DOMAIN last.data => Holds(entry, "event", PyStr(last.event_type))
              /\ DOMAIN entry = DOMAIN last.data \cup {"event", "timestamp"}

C6_GetOrCreateAsStated ==
    /\ last.op = "get_or_create" =>
          LET v == DictGet(last.event, "correlation_id")
          IN IF "correlation_id" \in DOMAIN last.event /\ NonEmpty(v)
             THEN last.ret = v
             ELSE Len(minted) = last.before + 1 /\ last.ret = PyStr(minted[Len(minted)])
    /\ \A m, n \in 1..Len(minted) : m # n => minted[m] # minted[n]

\* C6 as amended: get_or_create returns request["correlation_id"] unchanged
\* whenever the key is present with a truthy value, and then draws no
\* identifier; whenever the key is absent or its value is falsy (None, '', and
\* also 0) it returns the string of one new uuid4 draw.
C6_GetOrCreate ==
    last.op = "get_or_create" =>
        LET v == DictGet(last.event, "correlation_id")
        IN IF Truthy(v)
           THEN last.ret = v /\ Len(minted) = last.before
           ELSE /\ Len(minted) = last.before + 1
                /\ minted[Len(minted)] \in UUIDs
                /\ last.ret = PyStr(minted[Len(minted)])

C6_Witness ==
    /\ last.op = "get_or_create"
    /\ Holds(last.event, "correlation_id", PyNum(0))
    /\ Len(minted) = 2
    /\ minted[1] = minted[2]
    /\ last.ret = PyStr(minted[2])

\* C7: for every response mapping and every id, add_to_response returns the
\* response with headers a mapping holding X-Correlation-ID == id; every other
\* field and every other header is unchanged, the headers mapping is created
\* only when absent, and a second application with the same id changes nothing.
C7_AddToResponse ==
    last.op = "add_to_response" =>
        LET before == last.response
            after == heap[last.obj]
        IN /\ ~last.raised
           /\ last.ret = last.obj
           /\ CorrelationHeader(after) = last.id
           /\ DOMAIN after = DOMAIN before \cup {"headers"}
           /\ \A k \in DOMAIN before \ {"headers"} : after[k] = before[k]
           /\ DOMAIN after["headers"].d =
                 (IF "headers" \in DOMAIN before THEN DOMAIN before["headers"].d ELSE {})
                 \cup {"X-Correlation-ID"}
           /\ "headers" \in DOMAIN before =>
                 \A h \in DOMAIN before["headers"].d \ {"X-Correlation-ID"} :
                     after["headers"].d[h] = before["headers"].d[h]
           /\ add_to_response(after, last.id).response = after

\* C8: should_log uses the custom rate whenever one is given, a given 0
\* included, and the default sampling rate otherwise; it returns true iff the
\* draw is strictly less than that rate, so never at a rate <= 0 and always at
\* a rate >= 1; the call changes no state.
C8_ShouldLog ==
    last.op = "should_log" =>
        LET rate == IF last.custom_rate.given THEN last.custom_rate.rate ELSE sample_rate
        IN /\ last.ret = (last.draw < rate)
           /\ rate <= 0 => ~last.ret
           /\ rate >= 100 => last.ret
           /\ last.config = <<debug_enabled, sample_rate>>
           /\ Len(sink) = last.printed
           /\ minted = <<>>

C8_Witness ==
    /\ last.op = "should_log"
    /\ last.custom_rate = [given |-> TRUE, rate |-> 0]
    /\ sample_rate = 100
    /\ ~last.ret

====
